---- MODULE Spec2Model ----
(***************************************************************************)
(* Expense capture and dual-ledger posting (finance-agent).                *)
(*                                                                         *)
(* Texts (amounts typed by a user, cell values) are sequences of           *)
(* one-character strings, so that the string conversions of the source     *)
(* (replace, float(), f"{x:,.0f}") are computed, not assumed.  Numbers are *)
(* fractions [n |-> numerator, d |-> denominator].  A date text is the     *)
(* sequence of its three numbers in the order of its format.               *)
(***************************************************************************)
EXTENDS Integers, Sequences, FiniteSets, TLC

(***************************************************************************)
(* Text and number helpers (Python str / float semantics)                  *)
(***************************************************************************)

DigitChars == <<"0", "1", "2", "3", "4", "5", "6", "7", "8", "9">>

Digits == {DigitChars[i] : i \in 1..10}

DigitVal(c) == (CHOOSE i \in 1..10 : DigitChars[i] = c) - 1

RECURSIVE ParseNat(_)
ParseNat(t) ==
    IF t = <<>> THEN 0
    ELSE ParseNat(SubSeq(t, 1, Len(t) - 1)) * 10 + DigitVal(t[Len(t)])

RECURSIVE Pow10(_)
Pow10(k) == IF k = 0 THEN 1 ELSE 10 * Pow10(k - 1)

\* str.replace(c, '')
Remove(t, c) == SelectSeq(t, LAMBDA x : x # c)

\* str.replace(a, b) for single characters
ReplaceChar(t, a, b) == [i \in 1..Len(t) |-> IF t[i] = a THEN b ELSE t[i]]

\* str.startswith(c)
StartsWith(t, c) == Len(t) > 0 /\ t[1] = c

Abs(x) == IF x < 0 THEN -x ELSE x

\* A number in lowest decimal terms: 43.000 and 43 are the same float.
RECURSIVE Norm(_)
Norm(q) ==
    IF q.d > 1 /\ q.n % 10 = 0 THEN Norm([n |-> q.n \div 10, d |-> q.d \div 10])
    ELSE q

Num(i) == [n |-> i, d |-> 1]

NumNeg(q) == [n |-> -q.n, d |-> q.d]

NumAbs(q) == [n |-> Abs(q.n), d |-> q.d]

NumEq(p, q) == p.n * q.d = q.n * p.d

NumLeq(p, q) == p.n * q.d <= q.n * p.d

\* Python's float(str) on the texts used here (digits, "$", ".", ",", "-" and
\* the letter "x"): an optional minus sign, then digits with at most one
\* decimal point and at least one digit; anything else raises ValueError.
\* (Whitespace, exponents, underscores, inf and nan need other characters.)
FloatBody(t) == IF StartsWith(t, "-") THEN Tail(t) ELSE t

IsFloatText(t) ==
    LET b == FloatBody(t)
    IN  /\ \A i \in 1..Len(b) : b[i] \in Digits \cup {"."}
        /\ Cardinality({i \in 1..Len(b) : b[i] = "."}) <= 1
        /\ \E i \in 1..Len(b) : b[i] \in Digits

FloatValue(t) ==
    LET b    == FloatBody(t)
        dots == {i \in 1..Len(b) : b[i] = "."}
        frac == IF dots = {} THEN 0 ELSE Len(b) - (CHOOSE i \in dots : TRUE)
        mag  == ParseNat(Remove(b, "."))
    IN  Norm([n |-> IF StartsWith(t, "-") THEN -mag ELSE mag, d |-> Pow10(frac)])

\* The result of an expression that may raise: exc is "none" or the exception.
Ok(v) == [exc |-> "none", val |-> v]

Raise(e) == [exc |-> e, val |-> Num(0)]

PyFloat(t) == IF IsFloatText(t) THEN Ok(FloatValue(t)) ELSE Raise("ValueError")

\* Decimal digits of a natural number
RECURSIVE NatText(_)
NatText(k) ==
    IF k < 10 THEN <<DigitChars[k + 1]>>
    ELSE Append(NatText(k \div 10), DigitChars[(k % 10) + 1])

\* f"{k:,}" with `sep` in place of the comma: groups of three from the right
RECURSIVE Grouped(_, _)
Grouped(k, sep) ==
    IF k < 1000 THEN NatText(k)
    ELSE LET r == k % 1000
             pad == IF r < 10 THEN <<"0", "0">> ELSE IF r < 100 THEN <<"0">> ELSE <<>>
         IN  Grouped(k \div 1000, sep) \o <<sep>> \o pad \o NatText(r)

\* round-half-even of a non-negative decimal fraction to an integer (":.0f")
RoundHalfEven(q) ==
    LET fl  == q.n \div q.d
        rem == q.n % q.d
    IN  IF 2 * rem < q.d THEN fl
        ELSE IF 2 * rem > q.d THEN fl + 1
        ELSE IF fl % 2 = 0 THEN fl ELSE fl + 1

(***************************************************************************)
(* Dual-ledger poster: the two AccountingService implementations           *)
(*   "text"    accounting_service.py  (display-formatted cells)            *)
(*   "numeric" sheets_service.py      (numeric cells)                      *)
(***************************************************************************)

VARIABLES
    variant,     \* which AccountingService implementation is deployed
    today,       \* datetime.now(), as a calendar day
    expenses,    \* rows of the expense ledger (sheet 'Gastos'), by row number
    movements,   \* rows of the movement ledger (sheet 'Movimientos caja')
    call         \* per posting process: the register_expenses call in progress

posterVars == <<variant, today, expenses, movements, call>>

\* The state of the Telegram bot (telegram_bot.py), which the poster leaves alone
VARIABLES
    manual,      \* per chat: state of the "manual_expense" conversation
    factura,     \* per chat: state of the "invoice_expense" conversation
    user_data,   \* context.user_data of the user: the keys set so far
    live,        \* per chat: the keyboards its latest messages still show
    rates,       \* the rates of the bot's CurrencyService
    started,     \* history: the conversations entered so far
    posts,       \* history: the register_expenses calls of the bot
    path,        \* history, per chat: the states the current manual flow entered
    loops,       \* history, per chat: the states a handler of it left as they
                 \*   were, each with the text that was handled
    extraction   \* history, per chat: what process_invoice gave the current flow

botVars == <<manual, factura, user_data, live, rates, started, posts, path, loops, extraction>>

\* A function of a service applied to an input on its own: the input, and
\* what the call gave
VARIABLE applied

\* The processes that post to the same spreadsheet: the Telegram bot and the
\* daily scheduler of main.py.
Procs == {"bot", "scheduler"}

Variants == {"text", "numeric"}

\* Longest list handed to one register_expenses call
MaxRecs == 2

\* dict.get(key, default)
Get(sub, key, default) == IF key \in DOMAIN sub THEN sub[key] ELSE default

\* The records posted: montoCOP positive with a comma thousands separator (the
\* form of test.py), already negative, zero, and unparseable.
Records ==
    { [detalle |-> "Hosting",  categoria |-> "Tech",
       montoCOP |-> <<"$", "5", "0", ",", "0", "0", "0">>, montoUSD |-> <<"$", "5", "0">>],
      [detalle |-> "Oficina",  categoria |-> "Workspace",
       montoCOP |-> <<"-", "$", "5", ".", "0", "0", "0">>, montoUSD |-> <<"$", "5">>],
      [detalle |-> "Cortesia", categoria |-> "Otros",
       montoCOP |-> <<"$", "0">>, montoUSD |-> <<"$", "0">>],
      [detalle |-> "Ilegible", categoria |-> "Legal",
       montoCOP |-> <<"x">>, montoUSD |-> <<"$", "5">>] }

RECURSIVE SeqsUpTo(_, _)
SeqsUpTo(S, k) ==
    IF k = 0 THEN {<<>>}
    ELSE LET shorter == SeqsUpTo(S, k - 1)
         IN  shorter \cup {Append(q, x) : q \in {r \in shorter : Len(r) = k - 1}, x \in S}

\* What each process hands to register_expenses: the bot a list of exactly one
\* record (gasto = [{...}]), the scheduler the list of due subscriptions.
InputsOf(R, p) == IF p = "bot" THEN {<<r>> : r \in R} ELSE SeqsUpTo(R, MaxRecs)

\* The records of the overlapping calls, where the row positions matter and
\* the amounts do not
RaceRecords == {r \in Records : r.detalle \in {"Hosting", "Oficina"}}

\* strftime("%m/%d/%Y")
format_date_for_accounting(date_obj) == <<date_obj.month, date_obj.day, date_obj.year>>

\* AccountingService.format_currency (accounting_service.py)
format_currency(value) ==
    LET clean == Remove(Remove(Remove(value, "$"), "."), ",")
        r     == PyFloat(clean)
    IN  IF r.exc = "ValueError" THEN Num(0) ELSE r.val

\* AccountingService.extract_numeric_value (sheets_service.py): may raise
extract_numeric_value(value_str) ==
    PyFloat(ReplaceChar(Remove(Remove(value_str, "$"), "."), ",", "."))

\* f"${x:,.0f}".replace(',', '.') for x >= 0
FormatThousandsDot(q) == <<"$">> \o ReplaceChar(Grouped(RoundHalfEven(q), ","), ",", ".")

\* One expense-ledger row, accounting_service.py
TextExpenseRow(p, date, sub) ==
    Ok([by        |-> p,
        fecha     |-> format_date_for_accounting(date),
        detalle   |-> Get(sub, "detalle", "Sin detalles"),
        categoria |-> Get(sub, "categoria", "Sin categoria"),
        montoCOP  |-> Get(sub, "montoCOP", <<>>),
        montoUSD  |-> Get(sub, "montoUSD", <<>>)])

\* One expense-ledger row, sheets_service.py
NumericExpenseRow(p, date, sub) ==
    LET monto_cop == extract_numeric_value(Get(sub, "montoCOP", <<"0">>))
        monto_usd == extract_numeric_value(Get(sub, "montoUSD", <<"0">>))
    IN  IF monto_cop.exc # "none" THEN Raise(monto_cop.exc)
        ELSE IF monto_usd.exc # "none" THEN Raise(monto_usd.exc)
        ELSE Ok([by        |-> p,
                 fecha     |-> format_date_for_accounting(date),
                 detalle   |-> Get(sub, "detalle", "Sin detalles"),
                 categoria |-> Get(sub, "categoria", "Sin categoria"),
                 montoCOP  |-> monto_cop.val,
                 montoUSD  |-> monto_usd.val])

ExpenseRow(v, p, date, sub) ==
    IF v = "text" THEN TextExpenseRow(p, date, sub) ELSE NumericExpenseRow(p, date, sub)

\* The amount cell of a movement row, accounting_service.py
TextMovementAmount(sub) ==
    LET monto_cop       == Get(sub, "montoCOP", <<"$", "0">>)
        monto_valor     == NumNeg(NumAbs(format_currency(monto_cop)))
        monto_formatted == FormatThousandsDot(NumAbs(monto_valor))
    IN  Ok(<<"-">> \o monto_formatted)

\* The amount cell of a movement row, sheets_service.py, without -abs()
NumericMovementAmountAsGiven(sub) ==
    extract_numeric_value(Get(sub, "montoCOP", <<"0">>))

\* The amount cell of a movement row, sheets_service.py
NumericMovementAmount(sub) ==
    LET r == extract_numeric_value(Get(sub, "montoCOP", <<"0">>))
    IN  IF r.exc # "none" THEN r ELSE Ok(NumNeg(NumAbs(r.val)))

AnnotatedDescriptionWithoutMarker(detalle) == <<"", detalle>>

\* f"Gasto recurrente: {sub.get('detalle', ...)}"
AnnotatedDescription(detalle) == <<"Gasto recurrente: ", detalle>>

MovementRow(v, p, date, sub) ==
    LET monto == IF v = "text" THEN TextMovementAmount(sub) ELSE NumericMovementAmount(sub)
    IN  IF monto.exc # "none" THEN Raise(monto.exc)
        ELSE Ok([by      |-> p,
                 fecha   |-> format_date_for_accounting(date),
                 detalle |-> AnnotatedDescription(Get(sub, "detalle", "Sin detalles")),
                 monto   |-> monto.val])

\* values = [row(sub) for sub in subscriptions]; the first exception raised ends
\* the loop
RowsOf(built) ==
    LET bad == {i \in 1..Len(built) : built[i].exc # "none"}
    IN  IF bad # {} THEN Raise(built[CHOOSE i \in bad : \A j \in bad : i <= j].exc)
        ELSE Ok([i \in 1..Len(built) |-> built[i].val])

ExpenseValues(v, p, date, subs) ==
    RowsOf([i \in 1..Len(subs) |-> ExpenseRow(v, p, date, subs[i])])

MovementValues(v, p, date, subs) ==
    RowsOf([i \in 1..Len(subs) |-> MovementRow(v, p, date, subs[i])])

\* values().update(range = A{next_row}, body = values): the rows are written
\* from row next_row on, over whatever is there
UpdateAt(sheet, next_row, values) ==
    LET last == IF Len(sheet) > next_row + Len(values) - 1
                THEN Len(sheet) ELSE next_row + Len(values) - 1
    IN  [i \in 1..last |->
            IF i >= next_row /\ i < next_row + Len(values)
            THEN values[i - next_row + 1] ELSE sheet[i]]

(***************************************************************************)
(* register_expenses as a process: the remote reads and updates of one     *)
(* call are separate steps, so that calls of different processes           *)
(* interleave where the source talks to the spreadsheet.                   *)
(***************************************************************************)

\* The ledgers before the first post: a header row, and in the movement
\* ledger one earlier movement.
PreRow == [by |-> "sheet"]

InitialExpenses == <<PreRow>>

InitialMovements == <<PreRow, PreRow>>

IdleCall ==
    [pc               |-> "idle",
     subs             |-> <<>>,
     next_row         |-> 0,
     expenses_result  |-> FALSE,
     movements_result |-> FALSE,
     ret              |-> FALSE,
     ops              |-> <<>>,      \* history: the requests served for this call
     tried            |-> {},        \* history: the ledgers whose write was attempted
     probed           |-> [expenses |-> 0, movements |-> 0]]
                                     \* history: next_row as computed for each ledger

Op(kind, sheet) == [op |-> kind, sheet |-> sheet]

\* `if not subscriptions: return True`
EmptyInputNever(subs) == FALSE

EmptyInput(subs) == subs = <<>>

\* `except Exception` around the body of register_in_*_sheet
CaughtOnlyValueError(exc) == exc = "ValueError"

Caught(exc) == exc \in {"ValueError", "HttpError"}

\* register_expenses after register_in_expenses_sheet has returned: the
\* movement ledger is written whatever the first result was
AfterExpensesShortCircuit(expenses_result) ==
    IF expenses_result THEN "movements_read" ELSE "return"

AfterExpenses(expenses_result) == "movements_read"

\* `return expenses_result and movements_result`
ResultEither(expenses_result, movements_result) == expenses_result \/ movements_result

Result(expenses_result, movements_result) == expenses_result /\ movements_result

\* next_row = len(existing_rows) + 1
NextRowLast(existing_rows) == Len(existing_rows)

NextRow(existing_rows) == Len(existing_rows) + 1

\* The row an update is sent to: the one computed from the read
UpdateRowAtEnd(next_row, sheet) == Len(sheet) + 1

UpdateRow(next_row, sheet) == next_row

\* Where a call goes when register_in_*_sheet ends with result r or raises
\* exc: on to the movement ledger, or to the return of register_expenses
LedgerDone(c, ledger, r, exc, ops) ==
    IF exc # "none" /\ ~Caught(exc)
    THEN [c EXCEPT !.pc = "raised", !.ops = ops]
    ELSE LET ok == exc = "none" /\ r
         IN  IF ledger = "expenses" /\ AfterExpenses(ok) # "return"
             THEN [c EXCEPT !.pc = AfterExpenses(ok), !.expenses_result = ok, !.ops = ops]
             ELSE IF ledger = "expenses"
             THEN [c EXCEPT !.pc = "done", !.expenses_result = ok, !.ops = ops,
                            !.ret = Result(ok, c.movements_result)]
             ELSE [c EXCEPT !.pc = "done", !.movements_result = ok, !.ops = ops,
                            !.ret = Result(c.expenses_result, ok)]

Sheet(ledger) == IF ledger = "expenses" THEN expenses ELSE movements

Values(ledger, p, subs) ==
    IF ledger = "expenses" THEN ExpenseValues(variant, p, today, subs)
    ELSE MovementValues(variant, p, today, subs)

\* register_expenses: entry
register_expenses(p, subs) ==
    /\ call[p].pc = "idle"
    /\ call' = [call EXCEPT ![p] =
            IF EmptyInput(subs)
            THEN [@ EXCEPT !.pc = "done", !.subs = subs, !.ret = TRUE]
            ELSE [@ EXCEPT !.pc = "expenses_read", !.subs = subs]]
    /\ UNCHANGED <<variant, today, expenses, movements>>
    /\ UNCHANGED <<botVars, applied>>

\* register_in_*_sheet up to the read of column A: get_service, (numeric
\* movements: check_sheet_exists,) the rows are built, column A is read.
\* outcome is what the collaborator does.
LedgerRead(p, ledger, outcome) ==
    LET c      == call[p]
        values == Values(ledger, p, c.subs)
        meta   == IF variant = "numeric" /\ ledger = "movements"
                  THEN <<Op("meta", ledger)>> ELSE <<>>
    IN  /\ c.pc = ledger \o "_read"
        /\ outcome = "sheet_missing" => (variant = "numeric" /\ ledger = "movements")
        /\ call' = [call EXCEPT ![p] =
              LET t == [c EXCEPT !.tried = @ \cup {ledger}]
              IN  CASE outcome = "no_service" ->
                         LedgerDone(t, ledger, FALSE, "none", c.ops)
                    [] outcome = "sheet_missing" ->
                         LedgerDone(t, ledger, FALSE, "none", c.ops \o meta)
                    [] values.exc # "none" ->
                         LedgerDone(t, ledger, FALSE, values.exc, c.ops \o meta)
                    [] outcome = "read_error" ->
                         LedgerDone(t, ledger, FALSE, "HttpError", c.ops \o meta)
                    [] OTHER ->
                         [t EXCEPT !.pc = ledger \o "_update",
                                   !.next_row = NextRow(Sheet(ledger)),
                                   !.probed[ledger] = NextRow(Sheet(ledger)),
                                   !.ops = c.ops \o meta \o <<Op("get", ledger)>>]]
        /\ UNCHANGED <<variant, today, expenses, movements>>
        /\ UNCHANGED <<botVars, applied>>

\* register_in_*_sheet from the update on
LedgerUpdate(p, ledger, outcome) ==
    LET c      == call[p]
        values == Values(ledger, p, c.subs).val
        sheet  == Sheet(ledger)
        done   == UpdateAt(sheet, UpdateRow(c.next_row, sheet), values)
    IN  /\ c.pc = ledger \o "_update"
        /\ IF outcome = "ok"
           THEN /\ call' = [call EXCEPT ![p] =
                      LedgerDone(c, ledger, TRUE, "none",
                                 Append(c.ops, Op("update", ledger)))]
                /\ IF ledger = "expenses"
                   THEN expenses' = done /\ UNCHANGED movements
                   ELSE movements' = done /\ UNCHANGED expenses
           ELSE /\ call' = [call EXCEPT ![p] =
                      LedgerDone(c, ledger, FALSE, "HttpError", c.ops)]
                /\ UNCHANGED <<expenses, movements>>
        /\ UNCHANGED <<variant, today>>
        /\ UNCHANGED <<botVars, applied>>

ReadOutcomes == {"ok", "no_service", "sheet_missing", "read_error"}

UpdateOutcomes == {"ok", "write_error"}

register_in_expenses_sheet_read(p) == \E o \in ReadOutcomes : LedgerRead(p, "expenses", o)

register_in_expenses_sheet_update(p) == \E o \in UpdateOutcomes : LedgerUpdate(p, "expenses", o)

register_in_movements_sheet_read(p) == \E o \in ReadOutcomes : LedgerRead(p, "movements", o)

register_in_movements_sheet_update(p) == \E o \in UpdateOutcomes : LedgerUpdate(p, "movements", o)

(***************************************************************************)
(* CurrencyService (currency_service.py)                                   *)
(***************************************************************************)

NumMul(p, q) == [n |-> p.n * q.n, d |-> p.d * q.d]

\* f"{q:,.<decimals>f}": sign, integer part in groups of three, and the
\* fraction rounded half-even to `decimals` digits.  (The float -0.0 is not
\* told apart from 0.0.)
FormatFixed(q, decimals) ==
    LET scaled == RoundHalfEven([n |-> Abs(q.n) * Pow10(decimals), d |-> q.d])
        whole  == scaled \div Pow10(decimals)
        frac   == scaled % Pow10(decimals)
        pad    == [i \in 1..(decimals - Len(NatText(frac))) |-> "0"]
    IN  (IF q.n < 0 THEN <<"-">> ELSE <<>>)
        \o Grouped(whole, ",")
        \o (IF decimals = 0 THEN <<>> ELSE <<".">> \o pad \o NatText(frac))

\* The rates a CurrencyService is constructed with
DefaultRates ==
    [usd_to_cop_rate |-> [n |-> 4300, d |-> 1],
     cop_to_usd_rate |-> [n |-> 1, d |-> 4300]]

convert_usd_to_cop_by_inverse_rate(r, amount_usd) == NumMul(amount_usd, r.cop_to_usd_rate)

convert_usd_to_cop(r, amount_usd) == NumMul(amount_usd, r.usd_to_cop_rate)

convert_cop_to_usd(r, amount_cop) == NumMul(amount_cop, r.cop_to_usd_rate)

format_cop_amount(amount) == <<"$">> \o ReplaceChar(FormatFixed(amount, 0), ",", ".")

format_usd_amount(amount) == <<"$">> \o FormatFixed(amount, 2)

\* CurrencyService.parse_amount on a str: "$" and every "." dropped, every ","
\* made a ".", then float(); 0.0 when that raises ValueError
parse_amount(amount_str) ==
    LET cleaned == ReplaceChar(Remove(Remove(amount_str, "$"), "."), ",", ".")
        r       == PyFloat(cleaned)
    IN  IF r.exc = "ValueError" THEN Num(0) ELSE r.val

\* Whole amounts of pesos, below and above the thousands separators
AmountsCOP == {Num(i) : i \in (0..25) \cup {999, 1000, 1001, 43000, 1500000}}

\* Amounts of dollars in cents
AmountsUSD ==
    {Norm([n |-> c, d |-> 100]) : c \in (0..25) \cup {99, 100, 2550, 99999, 100000, 120000, 123456}}

\* The amounts a CurrencyService formats, each with its currency
Amounts ==
    {[amount |-> x, currency |-> "COP"] : x \in AmountsCOP}
    \cup {[amount |-> x, currency |-> "USD"] : x \in AmountsUSD}

format_amount(amount, currency) ==
    IF currency = "COP" THEN format_cop_amount(amount) ELSE format_usd_amount(amount)

(***************************************************************************)
(* InvoiceAIService (invoice_ai_service.py)                                *)
(*                                                                         *)
(* The JSON object Claude answers with is a function from the keys present *)
(* to values.  fecha and monto carry their JSON type: [str |-> text],      *)
(* [num |-> number], [null |-> TRUE] or [list |-> elements]; the text of a *)
(* fecha is a date text.  detalle is a text, moneda and categoria are      *)
(* strings (the code only tests them for membership, which no type of      *)
(* value makes raise).                                                     *)
(***************************************************************************)

None == [none |-> TRUE]

available_categories == {"Tech", "Workspace", "Legal", "Marketing", "Suscripciones", "Otros"}

DaysIn(month, year) ==
    IF month \in {4, 6, 9, 11} THEN 30
    ELSE IF month # 2 THEN 31
    ELSE IF year % 4 = 0 /\ (year % 100 # 0 \/ year % 400 = 0) THEN 29 ELSE 28

\* datetime.strptime(text, "%d/%m/%Y") does not raise ValueError
IsDayMonthYear(text) ==
    /\ Len(text) = 3
    /\ text[2] \in 1..12
    /\ text[3] \in 1..9999
    /\ text[1] \in 1..DaysIn(text[2], text[3])

\* datetime.now().strftime("%d/%m/%Y")
DayMonthYear(date_obj) == <<date_obj.day, date_obj.month, date_obj.year>>

\* str(x) of a JSON value
PyStr(x) ==
    IF "str" \in DOMAIN x THEN x.str
    ELSE IF "null" \in DOMAIN x THEN <<"N", "o", "n", "e">>
    ELSE <<"[", "]">>

ValidFechaSwapped(fecha, now) ==
    IF "str" \notin DOMAIN fecha THEN Raise("TypeError")
    ELSE Ok(IF IsDayMonthYear(fecha.str) THEN <<fecha.str[2], fecha.str[1], fecha.str[3]>>
            ELSE DayMonthYear(now))

\* The fecha of validate_invoice_info: strptime raises ValueError on a text
\* that is no date, which is caught, and TypeError on a value that is no
\* str, which is not
ValidFecha(fecha, now) ==
    IF "str" \notin DOMAIN fecha THEN Raise("TypeError")
    ELSE Ok(IF IsDayMonthYear(fecha.str) THEN fecha.str ELSE DayMonthYear(now))

\* The monto of validate_invoice_info: a JSON number is kept, any other value
\* goes through float(str(x).replace(',', '').replace('$', ''))
ValidMonto(monto) ==
    IF "num" \in DOMAIN monto THEN monto.num
    ELSE LET r == PyFloat(Remove(Remove(PyStr(monto), ","), "$"))
         IN  IF r.exc = "ValueError" THEN Num(0) ELSE r.val

\* The moneda a missing key is given
DefaultMoneda == "COP"

OnlyAssigned(raw, assigned) == assigned

\* The dict after the assignments invoice_info[field] = ...: the keys that
\* were not assigned hold what they held
Assigned(raw, assigned) ==
    [k \in DOMAIN raw \cup DOMAIN assigned |->
        IF k \in DOMAIN assigned THEN assigned[k] ELSE raw[k]]

validate_invoice_info(raw, now) ==
    LET fecha     == ValidFecha(Get(raw, "fecha", [str |-> DayMonthYear(now)]), now)
        monto     == ValidMonto(Get(raw, "monto", [num |-> Num(0)]))
        moneda    == Get(raw, "moneda", DefaultMoneda)
        categoria == Get(raw, "categoria", "Otros")
    IN  IF fecha.exc # "none" THEN Raise(fecha.exc)
        ELSE Ok(Assigned(raw,
                [fecha     |-> fecha.val,
                 detalle   |-> Get(raw, "detalle", <<"Gasto no especificado">>),
                 monto     |-> monto,
                 moneda    |-> IF moneda \in {"USD", "COP"} THEN moneda
                               ELSE IF ~NumLeq(monto, Num(1000)) THEN "COP" ELSE "USD",
                 categoria |-> IF categoria \in available_categories THEN categoria
                               ELSE "Otros"]))

analyze_invoice_without_validation(reply, now) ==
    IF reply.kind \in {"no_api_key", "status_error", "invalid_json", "not_an_object"} THEN None
    ELSE reply.json

\* reply is what the request to Claude comes back with; whatever is raised
\* inside (by json.loads, or by validate_invoice_info on a JSON value that is
\* no object or holds a fecha that is no string) is caught and gives None
analyze_invoice_with_claude(reply, now) ==
    IF reply.kind \in {"no_api_key", "status_error", "invalid_json", "not_an_object"} THEN None
    ELSE LET validated == validate_invoice_info(reply.json, now)
         IN  IF validated.exc # "none" THEN None ELSE validated.val

\* text is what OCR or the PDF reader extracted: "" is no text
process_invoice(file_ext, text, reply, now) ==
    IF file_ext \notin {".jpg", ".jpeg", ".png", ".pdf"} THEN None
    ELSE IF text = "" THEN None
    ELSE analyze_invoice_with_claude(reply, now)

\* The values Claude's JSON may hold under each key: a fecha that is a date,
\* a text that is no date (31/02/2026), null, a number; a monto that is a
\* number, a string with separators, a string that is no number, null, a list
RawValues ==
    [fecha     : { [str |-> <<3, 2, 2026>>], [str |-> <<31, 2, 2026>>],
                   [null |-> TRUE], [num |-> Num(2026)] },
     detalle   : { <<"x">> },
     monto     : { [num |-> Num(25)], [num |-> Num(45000)],
                   [str |-> <<"1", ",", "5", "0", "0">>], [str |-> <<"x">>],
                   [null |-> TRUE], [list |-> <<>>] },
     moneda    : { "USD", "COP", "EUR" },
     categoria : { "Tech", "Comida" }]

\* The objects validate_invoice_info is given: any of the five keys missing
RawInfos ==
    UNION { { [k \in present |-> v[k]] : v \in RawValues } :
            present \in SUBSET {"fecha", "detalle", "monto", "moneda", "categoria"} }

Given(input) == [fn |-> "-", input |-> input]

NotApplied == Given(<<>>)

\* validate_invoice_info called on the object given
Validate ==
    /\ applied.fn = "-"
    /\ applied' = [fn     |-> "validate_invoice_info",
                   input  |-> applied.input,
                   output |-> validate_invoice_info(applied.input, today)]
    /\ UNCHANGED <<posterVars, botVars>>

\* A record validate_invoice_info returned, as the argument of another call:
\* its fecha is a str and its monto a number
AsArgument(info) == [info EXCEPT !.fecha = [str |-> @], !.monto = [num |-> @]]

\* validate_invoice_info called on the record it returned
ValidateAgain ==
    /\ applied.fn = "validate_invoice_info"
    /\ applied.output.exc = "none"
    /\ applied' = [fn     |-> "validate_invoice_info twice",
                   input  |-> applied.input,
                   first  |-> applied.output.val,
                   output |-> validate_invoice_info(AsArgument(applied.output.val), today)]
    /\ UNCHANGED <<posterVars, botVars>>

\* Objects that hold a key besides the five fields
RawInfosWithNit ==
    {[k \in DOMAIN raw \cup {"nit"} |-> IF k = "nit" THEN <<"9">> ELSE raw[k]] : raw \in RawInfos}

\* The files, by extension: an image, a PDF, and a file of no supported kind
FileExts == {".jpg", ".pdf", ".txt"}

\* What the request to Claude may come back with
InvoiceReplies ==
    {[kind |-> k] : k \in {"no_api_key", "status_error", "invalid_json", "not_an_object"}}
    \cup {[kind |-> "ok", json |-> raw] : raw \in RawInfos}

process_invoice_calls_analyze_always(file_ext, text) ==
    IF file_ext \in {".jpg", ".jpeg", ".png"}
    THEN <<"extract_text_from_image", "analyze_invoice_with_claude">>
    ELSE IF file_ext = ".pdf"
    THEN <<"extract_text_from_pdf", "analyze_invoice_with_claude">>
    ELSE <<>>

\* The methods process_invoice calls, in order
process_invoice_calls(file_ext, text) ==
    IF file_ext \in {".jpg", ".jpeg", ".png"}
    THEN <<"extract_text_from_image">>
         \o (IF text = "" THEN <<>> ELSE <<"analyze_invoice_with_claude">>)
    ELSE IF file_ext = ".pdf"
    THEN <<"extract_text_from_pdf">>
         \o (IF text = "" THEN <<>> ELSE <<"analyze_invoice_with_claude">>)
    ELSE <<>>

\* process_invoice called on the file given, with what the extraction and
\* Claude come back with
ProcessInvoice ==
    /\ applied.fn = "-"
    /\ applied' = [fn     |-> "process_invoice",
                   input  |-> applied.input,
                   output |-> [calls |-> process_invoice_calls(applied.input.file_ext,
                                                               applied.input.text),
                               ret   |-> process_invoice(applied.input.file_ext,
                                                         applied.input.text,
                                                         applied.input.reply, today)]]
    /\ UNCHANGED <<posterVars, botVars>>

\* The cells the rate sheet may hold in A1 and A2: rates, and a text that is
\* no number
RateCells ==
    { <<"4", "0", "0", "0">>, <<"4", "2", "0", "0">>,
      <<"0", ".", "0", "0", "0", "2", "5">>, <<"x">> }

\* A row of the answer of values().get(): empty when the cell is
RateRows == {<<>>} \cup {<<cell>> : cell \in RateCells}

\* What the request for A1:A2 comes back with
RateReplies ==
    { [kind |-> "no_service"], [kind |-> "error"] }
    \cup {[kind |-> "values", values |-> v] : v \in SeqsUpTo(RateRows, 2)}

\* float(values[i][0])
RateOf(row) == IF row = <<>> THEN Raise("IndexError") ELSE PyFloat(row[1])

\* load_exchange_rates of a service whose rates are r: the rates it leaves and
\* what it returns.  The first rate is assigned before the second is parsed.
LoadedRates(r, reply) ==
    IF reply.kind # "values" \/ Len(reply.values) < 2
    THEN [rates |-> r, ret |-> FALSE]
    ELSE LET first  == RateOf(reply.values[1])
             second == RateOf(reply.values[2])
         IN  IF first.exc # "none" THEN [rates |-> r, ret |-> FALSE]
             ELSE IF second.exc # "none"
             THEN [rates |-> [r EXCEPT !.usd_to_cop_rate = first.val], ret |-> FALSE]
             ELSE [rates |-> [usd_to_cop_rate |-> first.val, cop_to_usd_rate |-> second.val],
                   ret   |-> TRUE]

load_exchange_rates(reply) ==
    /\ rates' = LoadedRates(rates, reply).rates
    /\ applied' = [fn     |-> "load_exchange_rates",
                   input  |-> reply,
                   output |-> LoadedRates(rates, reply).ret]
    /\ UNCHANGED <<posterVars, manual, factura, user_data, live, started, posts, path,
                   loops, extraction>>

\* An amount formatted for display and the display text parsed back
FormatAndParse ==
    /\ applied.fn = "-"
    /\ applied' = [fn     |-> "parse_amount",
                   input  |-> applied.input,
                   output |-> parse_amount(format_amount(applied.input.amount,
                                                         applied.input.currency))]
    /\ UNCHANGED <<posterVars, botVars>>

(***************************************************************************)
(* The daily check of main.py.  register_expenses and                      *)
(* send_subscription_notification catch what is raised inside them and     *)
(* return a boolean.                                                       *)
(***************************************************************************)

main_check_subscriptions_due_stops_on_failure(due_subscriptions, registered) ==
    IF due_subscriptions = <<>> THEN <<>>
    ELSE IF ~registered THEN <<[call |-> "register_expenses", arg |-> due_subscriptions]>>
    ELSE <<[call |-> "register_expenses", arg |-> due_subscriptions],
           [call |-> "send_subscription_notification", arg |-> due_subscriptions]>>

\* The calls check_subscriptions_due makes, in order, when
\* get_due_subscriptions returned due_subscriptions and register_expenses
\* returns `registered`
main_check_subscriptions_due(due_subscriptions, registered) ==
    IF due_subscriptions = <<>> THEN <<>>
    ELSE <<[call |-> "register_expenses", arg |-> due_subscriptions],
           [call |-> "send_subscription_notification", arg |-> due_subscriptions]>>

\* One run of the daily check
MainCheck ==
    /\ applied.fn = "-"
    /\ applied' = [fn     |-> "check_subscriptions_due",
                   input  |-> applied.input,
                   output |-> main_check_subscriptions_due(applied.input.due,
                                                           applied.input.registered)]
    /\ UNCHANGED <<posterVars, botVars>>

(***************************************************************************)
(* The notifier (recurring_notifications.py).  main() schedules            *)
(* check_subscriptions_due every day at NOTIFICATION_TIME, runs it once at *)
(* start-up and then loops on schedule.run_pending().  The service keeps   *)
(* no record of the subscriptions it has notified.  A subscription of the  *)
(* sheet is [detalle, fecha, estado]; fecha is a date text and estado a    *)
(* text.                                                                   *)
(***************************************************************************)

\* The number of midnights the service runs through
MaxDays == 106

Activo == <<"a", "c", "t", "i", "v", "o">>

\* str.lower()
PyLower(text) ==
    [i \in 1..Len(text) |->
        IF text[i] = "A" THEN "a" ELSE IF text[i] = "I" THEN "i"
        ELSE IF text[i] = "N" THEN "n" ELSE text[i]]

SheetFechas == { <<15, 1, 2025>>, <<31, 1, 2025>>, <<29, 2, 2024>>, <<31, 2, 2025>> }

SheetEstados == { Activo,
                  <<"A", "c", "t", "i", "v", "o">>,
                  <<"i", "n", "a", "c", "t", "i", "v", "o">> }

Subscriptions ==
    {[detalle |-> "Hosting", fecha |-> f, estado |-> e] : f \in SheetFechas, e \in SheetEstados}

\* load_subscriptions_from_sheets(): the rows of the sheet
Sheets == SeqsUpTo(Subscriptions, 2)

\* The subscriptions check_subscriptions_due finds due on the day `now`: a
\* fecha strptime rejects is logged and skipped
DueSubs(subscriptions, now) ==
    SelectSeq(subscriptions,
              LAMBDA sub : /\ IsDayMonthYear(sub.fecha)
                           /\ sub.fecha[1] = now.day
                           /\ PyLower(sub.estado) = Activo)

\* check_subscriptions_due(): send_notification is called when a
\* subscription is due; `sent` is the list of the notifications sent so far
check_subscriptions_due(subscriptions, now, sent) ==
    LET due_subs == DueSubs(subscriptions, now)
    IN  IF due_subs # <<>> THEN Append(sent, [on |-> now, subs |-> due_subs]) ELSE sent

\* The day after date_obj
NextDay(date_obj) ==
    IF date_obj.day < DaysIn(date_obj.month, date_obj.year)
    THEN [date_obj EXCEPT !.day = @ + 1]
    ELSE IF date_obj.month < 12
    THEN [date_obj EXCEPT !.day = 1, !.month = @ + 1]
    ELSE [day |-> 1, month |-> 1, year |-> date_obj.year + 1]

\* main(), started before or after NOTIFICATION_TIME: schedule sets the
\* job's first run to today when that time is still to come and to tomorrow
\* otherwise, and the start-up check runs at once.  elapsed counts the
\* midnights since the start, job_day is the day of the job's next run.
recurring_main(clock) ==
    /\ applied.fn = "-"
    /\ applied' = [fn      |-> "main",
                   input   |-> applied.input,
                   started |-> today,
                   clock   |-> clock,
                   elapsed |-> 0,
                   job_day |-> IF clock = "before" THEN 0 ELSE 1,
                   sent    |-> check_subscriptions_due(applied.input, today, <<>>)]
    /\ UNCHANGED <<posterVars, botVars>>

\* schedule.run_pending() once NOTIFICATION_TIME is reached on the day of
\* the job's next run: the job runs and is scheduled again for the next day
run_pending ==
    /\ applied.fn = "main"
    /\ applied.clock = "before"
    /\ applied.job_day <= applied.elapsed
    /\ applied' = [applied EXCEPT
                      !.clock = "after",
                      !.job_day = applied.elapsed + 1,
                      !.sent = check_subscriptions_due(applied.input, today, @)]
    /\ UNCHANGED <<posterVars, botVars>>

\* The loop sleeps through midnight
Midnight ==
    /\ applied.fn = "main"
    /\ applied.clock = "after"
    /\ applied.elapsed < MaxDays
    /\ today' = NextDay(today)
    /\ applied' = [applied EXCEPT !.clock = "before", !.elapsed = @ + 1]
    /\ UNCHANGED <<variant, expenses, movements, call, botVars>>

(***************************************************************************)
(* IrrelevalBot (telegram_bot.py): the two ConversationHandlers, their     *)
(* handlers, and the session data of the user.                             *)
(***************************************************************************)

\* The chats in which the user talks to the bot: a private chat and a group.
\* The conversations are kept per (chat, user), context.user_data per user.
Chats == {"chat1", "chat2"}

\* The chat of the runs in which the user talks to the bot in one chat only
OneChat == {"chat1"}

\* The description the user gives of the expense entered in chat c
DescriptionIn(c) == IF c = "chat1" THEN <<"x">> ELSE <<"y">>

END == "END"

CATEGORIAS == <<"Tech", "Workspace", "Legal", "Marketing", "Suscripciones", "Otros">>

\* The inline keyboards and the callback data of their buttons
Keyboards == {"categorias", "moneda", "confirmar"}

Buttons(k) ==
    IF k = "categorias" THEN {CATEGORIAS[i] : i \in 1..Len(CATEGORIAS)}
    ELSE IF k = "moneda" THEN {"COP", "USD"}
    ELSE {"confirmar", "cancelar"}

\* Most conversations entered (/gasto and /factura together) in a run
MaxFlows == 2

\* The buttons the user presses, on the latest message that shows keyboard k
Pressed(k) == Buttons(k) \cap {"Tech", "COP", "confirmar", "cancelar"}

\* The text messages the user sends: an amount, and a text that is no number
MsgTexts == {<<"5", "0">>, <<"x">>}

\* What the user types as an amount: numbers as the prompts show them
\* ("100000 or $100,000"), with a decimal point, zero, and texts that are no
\* number
AmountTexts ==
    { <<"$", "1", ",", "0", "0", "0">>, <<"1", ".", "5">>, <<"0">>, <<"x">>, <<"$">> }

\* The texts sent as the description of an expense
Descriptions == {<<"x">>}

\* What Claude answers: a failure, and an object without moneda whose monto
\* is a string
ClaudeReplies ==
    { [kind |-> "status_error"],
      [kind |-> "ok",
       json |-> [fecha |-> [str |-> <<3, 2, 2026>>], detalle |-> <<"x", "5">>,
                 monto |-> [str |-> <<"$", "5">>], categoria |-> "Comida"]] }

\* dict[key] = value
Put(d, key, value) == [x \in DOMAIN d \cup {key} |-> IF x = key THEN value ELSE d[x]]

Has(d, keys) == keys \subseteq DOMAIN d

\* The keyboards of a chat after a message with keyboard k is sent, and after
\* the message showing k is edited into one without it
Shown(lv, k) == lv \cup {k}

Edited(lv, k) == lv \ {k}

\* AccountingService.register_expenses as the bot calls it: the handler waits
\* for it, and eo, mo are what the spreadsheet does with each ledger's requests
PostOutcomes == {"ok", "error"}

\* register_in_*_sheet on `sheet`: the rows are written when they could be
\* built and the spreadsheet served the requests
RegisterInSheet(sheet, values, outcome) ==
    IF outcome = "ok" /\ values.exc = "none"
    THEN [ok |-> TRUE, sheet |-> UpdateAt(sheet, UpdateRow(NextRow(sheet), sheet), values.val)]
    ELSE [ok |-> FALSE, sheet |-> sheet]

\* register_expenses from the results e, m of the two ledgers
Registered(subs, e, m) ==
    IF EmptyInput(subs)
    THEN [expenses |-> expenses, movements |-> movements, ret |-> TRUE]
    ELSE IF AfterExpenses(e.ok) = "return"
    THEN [expenses |-> e.sheet, movements |-> movements, ret |-> Result(e.ok, FALSE)]
    ELSE [expenses |-> e.sheet, movements |-> m.sheet, ret |-> Result(e.ok, m.ok)]

RegisterExpenses(subs, eo, mo) ==
    Registered(subs,
               RegisterInSheet(expenses, Values("expenses", "bot", subs), eo),
               RegisterInSheet(movements, Values("movements", "bot", subs), mo))

\* What the handlers return
cmd_gasto_return == "DETALLE"

process_detalle_return == "CATEGORIA"

process_categoria_skips_moneda == "MONTO"

process_categoria_return == "SELECCION_MONEDA"

process_seleccion_moneda_return == "MONTO"

cmd_factura_return == "RECIBIR_FACTURA"

\* The manual flow goes to state s
Enter(c, s) ==
    /\ manual' = [manual EXCEPT ![c] = s]
    /\ IF s = END
       THEN path' = [path EXCEPT ![c] = <<>>] /\ loops' = [loops EXCEPT ![c] = {}]
       ELSE path' = [path EXCEPT ![c] = Append(@, s)] /\ UNCHANGED loops

\* A handler of the manual flow returns the state it was called in, or raises
\* (the ConversationHandler then keeps the state)
Stay(c, text) ==
    /\ loops' = [loops EXCEPT ![c] = @ \cup {<<manual[c], text>>}]
    /\ UNCHANGED <<manual, path>>

\* The invoice flow goes to state s, with x the result of process_invoice so far
EnterFactura(c, s, x) ==
    /\ factura' = [factura EXCEPT ![c] = s]
    /\ extraction' = [extraction EXCEPT ![c] = x]

\* A handler of the manual flow returns state s
Return(c, s, text) == IF s = manual[c] THEN Stay(c, text) ELSE Enter(c, s)

UnchangedPoster == UNCHANGED <<variant, today, expenses, movements, call>>

UnchangedManual == UNCHANGED <<manual, path, loops>>

UnchangedFactura == UNCHANGED <<factura, extraction>>

\* /gasto: entry point of the manual conversation (no re-entry)
cmd_gasto(c) ==
    /\ manual[c] = END
    /\ started < MaxFlows
    /\ started' = started + 1
    /\ Enter(c, cmd_gasto_return)
    /\ UNCHANGED <<user_data, live, rates, posts, applied>>
    /\ UnchangedFactura /\ UnchangedPoster

process_detalle(c, text) ==
    /\ manual[c] = "DETALLE"
    /\ user_data' = Put(user_data, "detalle", text)
    /\ live' = [live EXCEPT ![c] = Shown(@, "categorias")]
    /\ Enter(c, process_detalle_return)
    /\ UNCHANGED <<rates, started, posts, applied>>
    /\ UnchangedFactura /\ UnchangedPoster

\* A callback query: button `data` of a message showing keyboard k.  The
\* handler stores the data whatever keyboard it comes from, and edits the
\* message into the currency keyboard.
process_categoria(c, k, data) ==
    /\ manual[c] = "CATEGORIA"
    /\ k \in live[c]
    /\ user_data' = Put(user_data, "categoria", data)
    /\ live' = [live EXCEPT ![c] = Shown(Edited(@, k), "moneda")]
    /\ Enter(c, process_categoria_return)
    /\ UNCHANGED <<rates, started, posts, applied>>
    /\ UnchangedFactura /\ UnchangedPoster

process_seleccion_moneda(c, k, data) ==
    /\ manual[c] = "SELECCION_MONEDA"
    /\ k \in live[c]
    /\ user_data' = Put(user_data, "moneda_seleccionada", data)
    /\ live' = [live EXCEPT ![c] = Edited(@, k)]
    /\ Enter(c, process_seleccion_moneda_return)
    /\ UNCHANGED <<rates, started, posts, applied>>
    /\ UnchangedFactura /\ UnchangedPoster

\* The amount as process_monto reads it: one leading "$" dropped, every ","
\* and "." dropped, then float()
MontoOf(monto_str) ==
    LET t == IF StartsWith(monto_str, "$") THEN Tail(monto_str) ELSE monto_str
    IN  PyFloat(Remove(Remove(t, ","), "."))

\* user_data with the two formatted amounts of `monto` given in `moneda`
WithMontos(d, r, monto, moneda) ==
    LET monto_cop == IF moneda = "COP" THEN monto ELSE convert_usd_to_cop(r, monto)
        monto_usd == IF moneda = "COP" THEN convert_cop_to_usd(r, monto) ELSE monto
    IN  Put(Put(d, "montoCOP", format_cop_amount(monto_cop)),
            "montoUSD", format_usd_amount(monto_usd))

process_monto_except_ends == END

\* except ValueError: ... return MONTO
process_monto_except_return == "MONTO"

process_monto(c, text) ==
    LET monto == MontoOf(text)
    IN  /\ manual[c] = "MONTO"
        /\ IF ~Has(user_data, {"moneda_seleccionada"})
           THEN \* KeyError
                Stay(c, <<"KeyError">>) /\ UNCHANGED <<user_data, live>>
           ELSE IF monto.exc = "ValueError"
           THEN Return(c, process_monto_except_return, text) /\ UNCHANGED <<user_data, live>>
           ELSE /\ user_data' = WithMontos(user_data, rates, monto.val,
                                           user_data["moneda_seleccionada"])
                /\ IF Has(user_data, {"detalle", "categoria"})
                   THEN /\ live' = [live EXCEPT ![c] = Shown(@, "confirmar")]
                        /\ Enter(c, "CONFIRMACION")
                   ELSE Stay(c, <<"KeyError">>) /\ UNCHANGED live
        /\ UNCHANGED <<rates, started, posts, applied>>
        /\ UnchangedFactura /\ UnchangedPoster

\* The record a confirmation handler posts
Gasto(fecha) ==
    [fecha     |-> fecha,
     detalle   |-> user_data["detalle"],
     categoria |-> user_data["categoria"],
     montoCOP  |-> user_data["montoCOP"],
     montoUSD  |-> user_data["montoUSD"]]

GastoKeys == {"detalle", "categoria", "montoCOP", "montoUSD"}

GastoListTwice(record) == <<record, record>>

\* gasto = [{...}]
GastoList(record) == <<record>>

\* register_expenses(gasto) from a confirmation handler, and the notification
\* that is sent only when it returned True
Posted(c, flow, gasto, r) ==
    /\ expenses' = r.expenses
    /\ movements' = r.movements
    /\ posts' = Append(posts, [flow       |-> flow,
                               chat       |-> c,
                               state      |-> IF flow = "manual" THEN manual[c] ELSE factura[c],
                               path       |-> path[c],
                               loops      |-> loops[c],
                               extraction |-> extraction[c],
                               gasto      |-> gasto,
                               success    |-> r.ret,
                               notified   |-> r.ret])
    /\ UNCHANGED <<variant, today, call>>

Post(c, flow, gasto, eo, mo) == Posted(c, flow, gasto, RegisterExpenses(gasto, eo, mo))

process_confirmacion(c, k, data, eo, mo) ==
    /\ manual[c] = "CONFIRMACION"
    /\ k \in live[c]
    /\ IF data = "cancelar"
       THEN /\ live' = [live EXCEPT ![c] = Edited(@, k)]
            /\ Enter(c, END)
            /\ UNCHANGED posts /\ UnchangedPoster
       ELSE IF ~Has(user_data, GastoKeys)
       THEN Stay(c, <<"KeyError">>) /\ UNCHANGED <<live, posts>> /\ UnchangedPoster
       ELSE /\ Post(c, "manual", GastoList(Gasto(DayMonthYear(today))), eo, mo)
            /\ live' = [live EXCEPT ![c] = Edited(@, k)]
            /\ Enter(c, END)
    /\ UNCHANGED <<user_data, rates, started, applied>>
    /\ UnchangedFactura

\* /factura: entry point of the invoice conversation (no re-entry)
cmd_factura(c) ==
    /\ factura[c] = END
    /\ started < MaxFlows
    /\ started' = started + 1
    /\ EnterFactura(c, cmd_factura_return, "-")
    /\ UNCHANGED <<user_data, live, rates, posts, applied>>
    /\ UnchangedManual /\ UnchangedPoster

\* show_invoice_confirmation: with no record it replies and returns END, else
\* it stores the record in user_data, shows the summary and returns nothing
show_invoice_confirmation(d, r, invoice_info) ==
    IF invoice_info = None
    THEN [user_data |-> d, keyboard |-> FALSE, ret |-> END]
    ELSE [user_data |-> Put(WithMontos(Put(Put(d, "detalle", invoice_info.detalle),
                                           "categoria", invoice_info.categoria),
                                       r, invoice_info.monto, invoice_info.moneda),
                            "fecha", invoice_info.fecha),
          keyboard  |-> TRUE,
          ret       |-> "None"]

\* What process_factura_photo / process_factura_pdf return after
\* show_invoice_confirmation has returned `shown`: the value is not looked at
ProcessFacturaReturn(shown) == "CONFIRMACION_FACTURA"

\* The body shared by process_factura_photo and process_factura_pdf; download
\* is whether get_file / download_to_drive raised
ProcessFactura(c, file_ext, download, text, reply) ==
    LET invoice_info == process_invoice(file_ext, text, reply, today)
        shown        == show_invoice_confirmation(user_data, rates, invoice_info)
        next         == ProcessFacturaReturn(shown.ret)
    IN  /\ factura[c] = "RECIBIR_FACTURA"
        /\ IF download = "error"
           THEN EnterFactura(c, END, "-") /\ UNCHANGED <<user_data, live>>
           ELSE /\ user_data' = shown.user_data
                /\ live' = IF shown.keyboard THEN [live EXCEPT ![c] = Shown(@, "confirmar")]
                           ELSE live
                /\ EnterFactura(c, next,
                                IF next = END THEN "-"
                                ELSE IF invoice_info = None THEN "None" ELSE "record")
        /\ UNCHANGED <<rates, started, posts, applied>>
        /\ UnchangedManual /\ UnchangedPoster

Downloads == {"ok", "error"}

OcrTexts == {"", "FACTURA"}

process_factura_photo(c) ==
    \E download \in Downloads, text \in OcrTexts, reply \in ClaudeReplies :
        ProcessFactura(c, ".jpg", download, text, reply)

process_factura_pdf(c) ==
    \E download \in Downloads, text \in OcrTexts, reply \in ClaudeReplies :
        ProcessFactura(c, ".pdf", download, text, reply)

\* A callback query reaches the invoice conversation only when the manual one
\* has no handler for it
ManualTakesCallback(c) == manual[c] \in {"CATEGORIA", "SELECCION_MONEDA", "CONFIRMACION"}

process_confirmacion_factura(c, k, data, eo, mo) ==
    /\ factura[c] = "CONFIRMACION_FACTURA"
    /\ ~ManualTakesCallback(c)
    /\ k \in live[c]
    /\ IF data = "cancelar"
       THEN /\ live' = [live EXCEPT ![c] = Edited(@, k)]
            /\ EnterFactura(c, END, "-")
            /\ UNCHANGED posts /\ UnchangedPoster
       ELSE IF ~Has(user_data, GastoKeys)
       THEN UNCHANGED <<live, posts>> /\ UnchangedFactura /\ UnchangedPoster
       ELSE /\ Post(c, "factura", GastoList(Gasto(Get(user_data, "fecha", DayMonthYear(today)))),
                    eo, mo)
            /\ live' = [live EXCEPT ![c] = Edited(@, k)]
            /\ EnterFactura(c, END, "-")
    /\ UNCHANGED <<user_data, rates, started, applied>>
    /\ UnchangedManual

\* /cancelar: the fallback of both conversations; the update is handled by the
\* first handler of the group that accepts it
cmd_cancelar(c) ==
    /\ manual[c] # END \/ factura[c] # END
    /\ IF manual[c] # END
       THEN Enter(c, END) /\ UnchangedFactura
       ELSE EnterFactura(c, END, "-") /\ UnchangedManual
    /\ UNCHANGED <<user_data, live, rates, started, posts, applied>>
    /\ UnchangedPoster

\* A callback query that no conversation takes: outside the conversations no
\* handler is registered for callback queries
unhandled_callback(c, data) ==
    /\ ~ManualTakesCallback(c)
    /\ factura[c] # "CONFIRMACION_FACTURA"
    /\ UNCHANGED <<botVars, applied>>
    /\ UnchangedPoster

\* A text that no conversation takes
unknown_message(c, text) ==
    /\ manual[c] \notin {"DETALLE", "MONTO"}
    /\ UNCHANGED <<botVars, applied>>
    /\ UnchangedPoster

\* The record the confirmation summary shows for an amount entered in a
\* currency, and the expense-ledger row the poster builds from it
ShowAndRegister ==
    /\ applied.fn = "-"
    /\ applied' =
          [fn     |-> "register_in_expenses_sheet",
           input  |-> applied.input,
           output |-> [shown |-> WithMontos(<<>>, rates, applied.input.amount,
                                            applied.input.currency),
                       row   |-> ExpenseRow(variant, "bot", today,
                                            WithMontos([detalle |-> <<"x">>, categoria |-> "Tech"],
                                                       rates, applied.input.amount,
                                                       applied.input.currency))]]
    /\ UNCHANGED <<posterVars, botVars>>

NoCallInProgress == \A q \in Procs : call[q].pc \in {"idle", "done", "raised"}

\* datetime.now() of the runs checked
Today == [day |-> 15, month |-> 1, year |-> 2026]

\* The services after construction, for each of the posters in `deployed`
\* and each input in `given`
Init(deployed, given) ==
    /\ applied \in given
    /\ variant \in deployed
    /\ today = Today
    /\ expenses = InitialExpenses
    /\ movements = InitialMovements
    /\ call = [p \in Procs |-> IdleCall]
    /\ manual = [c \in Chats |-> END]
    /\ factura = [c \in Chats |-> END]
    /\ user_data = <<>>
    /\ live = [c \in Chats |-> {}]
    /\ rates = DefaultRates
    /\ started = 0
    /\ posts = <<>>
    /\ path = [c \in Chats |-> <<>>]
    /\ loops = [c \in Chats |-> {}]
    /\ extraction = [c \in Chats |-> "-"]

PosterStep(p) ==
    \/ register_in_expenses_sheet_read(p)
    \/ register_in_expenses_sheet_update(p)
    \/ register_in_movements_sheet_read(p)
    \/ register_in_movements_sheet_update(p)

\* Calls that do not overlap in time
NextSeq ==
    \E p \in Procs :
        \/ NoCallInProgress /\ \E subs \in InputsOf(Records, p) : register_expenses(p, subs)
        \/ PosterStep(p)

\* Calls of the two processes overlap freely
NextRace ==
    \E p \in Procs :
        \/ \E subs \in InputsOf(RaceRecords, p) : register_expenses(p, subs)
        \/ PosterStep(p)

\* The updates of a chat, each handled to its end before the next
NextBot ==
    \E c \in OneChat :
        \/ cmd_gasto(c)
        \/ \E text \in Descriptions : process_detalle(c, text)
        \/ \E k \in Keyboards : \E data \in Pressed(k) : process_categoria(c, k, data)
        \/ \E k \in Keyboards : \E data \in Pressed(k) : process_seleccion_moneda(c, k, data)
        \/ \E text \in MsgTexts : process_monto(c, text)
        \/ \E k \in Keyboards : \E data \in Pressed(k) : \E eo, mo \in PostOutcomes :
              process_confirmacion(c, k, data, eo, mo)
        \/ cmd_factura(c)
        \/ process_factura_photo(c)
        \/ process_factura_pdf(c)
        \/ \E k \in Keyboards : \E data \in Pressed(k) : \E eo, mo \in PostOutcomes :
              process_confirmacion_factura(c, k, data, eo, mo)
        \/ cmd_cancelar(c)
        \/ \E text \in MsgTexts : unknown_message(c, text)
        \/ \E data \in Buttons("confirmar") : unhandled_callback(c, data)

\* The user runs flows in both chats, one flow at a time in each chat, and
\* presses the buttons of the keyboard each step shows; the spreadsheet
\* serves every request
NextChats ==
    \E c \in Chats :
        \/ factura[c] = END /\ cmd_gasto(c)
        \/ process_detalle(c, DescriptionIn(c))
        \/ \E data \in Pressed("categorias") : process_categoria(c, "categorias", data)
        \/ \E data \in Pressed("moneda") : process_seleccion_moneda(c, "moneda", data)
        \/ \E text \in MsgTexts : process_monto(c, text)
        \/ \E data \in Pressed("confirmar") : process_confirmacion(c, "confirmar", data, "ok", "ok")
        \/ manual[c] = END /\ cmd_factura(c)
        \/ process_factura_photo(c)
        \/ \E data \in Pressed("confirmar") :
              process_confirmacion_factura(c, "confirmar", data, "ok", "ok")
        \/ cmd_cancelar(c)

\* Manual flows of one chat, with the amounts a user may type
NextMonto ==
    \E c \in OneChat :
        \/ cmd_gasto(c)
        \/ \E text \in Descriptions : process_detalle(c, text)
        \/ \E data \in Buttons("categorias") \cap {"Tech"} : process_categoria(c, "categorias", data)
        \/ \E data \in Buttons("moneda") : process_seleccion_moneda(c, "moneda", data)
        \/ \E text \in AmountTexts : process_monto(c, text)
        \/ \E data \in Buttons("confirmar") : process_confirmacion(c, "confirmar", data, "ok", "ok")
        \/ cmd_cancelar(c)

vars == <<posterVars, botVars, applied>>

SpecSeq == Init(Variants, {NotApplied}) /\ [][NextSeq]_vars

SpecRace == Init(Variants, {NotApplied}) /\ [][NextRace]_vars

\* The bot is the only writer; it runs the text poster (accounting_service)
SpecBot == Init({"text"}, {NotApplied}) /\ [][NextBot]_vars

\* The manual flow alone, with every amount text
SpecMonto == Init({"text"}, {NotApplied}) /\ [][NextMonto]_vars

\* validate_invoice_info on each object
SpecValidate ==
    Init({"text"}, {Given(raw) : raw \in RawInfos}) /\ [][Validate \/ ValidateAgain]_vars

\* validate_invoice_info on objects with a sixth key
SpecFrame == Init({"text"}, {Given(raw) : raw \in RawInfosWithNit}) /\ [][Validate]_vars

\* format_cop_amount / format_usd_amount and parse_amount on each amount
SpecParse == Init({"text"}, {Given(a) : a \in Amounts}) /\ [][FormatAndParse]_vars

\* Each amount shown in the summary and written by each of the two posters
SpecShown == Init(Variants, {Given(a) : a \in Amounts}) /\ [][ShowAndRegister]_vars

\* The daily check of main.py on each list of due subscriptions, with each
\* result of register_expenses and of the notification
SpecMain ==
    Init({"text"}, {Given([due |-> subs, registered |-> r, sent |-> n]) :
                       subs \in SeqsUpTo(Records, MaxRecs), r \in BOOLEAN, n \in BOOLEAN})
    /\ [][MainCheck]_vars

\* The notifier started on each sheet, before or after NOTIFICATION_TIME, and
\* left running
SpecDaily ==
    Init({"text"}, {Given(sheet) : sheet \in Sheets})
    /\ [][(\E clock \in {"before", "after"} : recurring_main(clock))
          \/ run_pending \/ Midnight]_vars

\* process_invoice on each file, extracted text and answer of Claude
SpecInvoice ==
    Init({"text"}, {Given([file_ext |-> e, text |-> t, reply |-> r]) :
                       e \in FileExts, t \in OcrTexts, r \in InvoiceReplies})
    /\ [][ProcessInvoice]_vars

\* The rates of a CurrencyService, loaded again and again
SpecRates ==
    Init({"text"}, {NotApplied}) /\ [][\E reply \in RateReplies : load_exchange_rates(reply)]_vars

\* The same user in two chats at once
SpecChats == Init({"text"}, {NotApplied}) /\ [][NextChats]_vars

(***************************************************************************)
(* Properties of the poster                                                *)
(***************************************************************************)

Ledgers == {"expenses", "movements"}

Served(p, kind, ledger) == \E i \in 1..Len(call[p].ops) : call[p].ops[i] = Op(kind, ledger)

Finished(p) == call[p].pc = "done" /\ call[p].subs # <<>>

\* The rows of call p are in the ledger, consecutive and in input order
RowsPresent(p, ledger) ==
    LET values == Values(ledger, p, call[p].subs).val
        sheet  == Sheet(ledger)
    IN  \E k \in 1..Len(sheet) :
            \A i \in 1..Len(values) : k + i - 1 <= Len(sheet) /\ sheet[k + i - 1] = values[i]

\* C1: a finished register_expenses call on a non-empty list has returned True
\* exactly when the update of the expense ledger and the update of the movement
\* ledger were both carried out.
C1_ResultIsAndOfBothWrites ==
    \A p \in Procs :
        Finished(p) =>
            (call[p].ret <=> (Served(p, "update", "expenses") /\ Served(p, "update", "movements")))

C1_Witness ==
    \E p, q \in Procs :
        /\ Finished(p) /\ call[p].ret
        /\ Finished(q) /\ ~call[q].ret /\ Served(q, "update", "expenses")

\* The number a reader of the movement ledger gets from an amount cell: the
\* cell itself when numeric, the display text read back with format_currency
MovementAmount(row) == IF variant = "text" THEN format_currency(row.monto) ELSE row.monto

\* C2: every row a call has written to the movement ledger carries an amount
\* that is <= 0, whatever the montoCOP of its record was.
C2_MovementAmountsNotPositive ==
    \A i \in 1..Len(movements) :
        movements[i].by \in Procs => NumLeq(MovementAmount(movements[i]), Num(0))

C2_Witness ==
    \E i, j \in 1..Len(movements) :
        /\ movements[i].by \in Procs /\ movements[j].by \in Procs
        /\ movements[i].detalle = <<"Gasto recurrente: ", "Hosting">>
        /\ NumEq(MovementAmount(movements[i]), Num(-50))
           \/ NumEq(MovementAmount(movements[i]), Num(-50000))
        /\ movements[j].detalle = <<"Gasto recurrente: ", "Oficina">>
        /\ NumLeq(MovementAmount(movements[j]), Num(-5))

\* C3: a call with the empty list is done with True, no request was served for
\* it, and the ledgers are as they were.
C3_EmptyListIsNoOp ==
    \A p \in Procs :
        (call[p].pc = "done" /\ call[p].subs = <<>>) =>
            /\ call[p].ret
            /\ call[p].ops = <<>>
            /\ call[p].tried = {}
            /\ (\A q \in Procs \ {p} : call[q].pc = "idle") =>
                   (expenses = InitialExpenses /\ movements = InitialMovements)

C3_Witness ==
    \E p \in Procs :
        /\ call[p].pc = "done" /\ call[p].subs = <<>> /\ call[p].ret
        /\ \A q \in Procs \ {p} : call[q].pc = "idle"

\* C4: a finished call attempted both ledgers; when exactly one of the two
\* updates was carried out the call returned False, the rows written are still
\* in that ledger, and no further update (or any other request) was issued for
\* it.
C4_PartialFailureNotRolledBack ==
    \A p \in Procs :
        Finished(p) =>
            /\ call[p].tried = Ledgers
            /\ \A l \in Ledgers :
                   (Served(p, "update", l) /\ \E m \in Ledgers : ~Served(p, "update", m)) =>
                       /\ ~call[p].ret
                       /\ RowsPresent(p, l)
                       /\ Cardinality({i \in 1..Len(call[p].ops) :
                                          call[p].ops[i].op = "update"}) = 1
                       /\ \A i \in 1..Len(call[p].ops) :
                              call[p].ops[i].op \in {"meta", "get", "update"}

C4_Witness ==
    \E p, q \in Procs :
        /\ Finished(p) /\ ~Served(p, "update", "expenses") /\ Served(p, "update", "movements")
        /\ ~call[p].ret /\ RowsPresent(p, "movements")
        /\ Finished(q) /\ Served(q, "update", "expenses") /\ ~Served(q, "update", "movements")
        /\ ~call[q].ret /\ RowsPresent(q, "expenses")

\* C5: no exception leaves register_expenses: a call never ends by raising,
\* and a ledger whose update was not carried out has the result False.
C5_NeverRaises ==
    \A p \in Procs :
        /\ call[p].pc # "raised"
        /\ Finished(p) =>
               /\ call[p].expenses_result <=> Served(p, "update", "expenses")
               /\ call[p].movements_result <=> Served(p, "update", "movements")

\* a conversion failure (numeric poster), and a collaborator failure after a
\* served read
C5_Witness ==
    \E p, q \in Procs :
        /\ variant = "numeric"
        /\ Finished(p) /\ ~call[p].ret /\ call[p].ops = <<Op("meta", "movements")>>
        /\ \E i \in 1..Len(call[p].subs) : call[p].subs[i].detalle = "Ilegible"
        /\ Finished(q) /\ ~call[q].ret
        /\ call[q].ops = <<Op("get", "expenses"), Op("meta", "movements"), Op("get", "movements")>>

IsPrefix(s, t) == Len(s) <= Len(t) /\ \A i \in 1..Len(s) : s[i] = t[i]

AppendOnlyStep ==
    /\ IsPrefix(expenses, expenses')
    /\ IsPrefix(movements, movements')
    /\ \A p \in Procs :
          /\ (call[p].pc = "expenses_update" /\ Served(p, "update", "expenses")') =>
                expenses' = expenses \o Values("expenses", p, call[p].subs).val
          /\ (call[p].pc = "movements_update" /\ Served(p, "update", "movements")') =>
                movements' = movements \o Values("movements", p, call[p].subs).val

\* C6: with calls that do not overlap, every step leaves the rows already in a
\* ledger as they are, and a successful update adds exactly the rows of the
\* call's records, in input order, after the last row.
C6_AppendOnly == [][AppendOnlyStep]_vars

C6_Witness ==
    \E p, q \in Procs :
        /\ p # q /\ Finished(p) /\ Finished(q) /\ call[p].ret /\ call[q].ret
        /\ Len(call[q].subs) = MaxRecs
        /\ expenses = InitialExpenses \o Values("expenses", p, call[p].subs).val
                                      \o Values("expenses", q, call[q].subs).val
        /\ movements = InitialMovements \o Values("movements", p, call[p].subs).val
                                        \o Values("movements", q, call[q].subs).val

\* C7: when two overlapping calls have computed the same next_row for a ledger
\* and both updates were carried out, the rows of one of them are no longer
\* all in the ledger: the later update went over them.
C7_SameRowOverwrites ==
    \A l \in Ledgers :
        \A p, q \in Procs :
            (/\ p # q
             /\ Served(p, "update", l) /\ Served(q, "update", l)
             /\ call[p].probed[l] = call[q].probed[l]
             /\ call[p].subs # <<>> /\ call[q].subs # <<>>) =>
                ~RowsPresent(p, l) \/ ~RowsPresent(q, l)

\* both calls returned True although rows of the expense ledger were lost
C7_Witness ==
    \E p, q \in Procs :
        /\ p # q /\ Finished(p) /\ Finished(q) /\ call[p].ret /\ call[q].ret
        /\ call[p].probed["expenses"] = call[q].probed["expenses"]
        /\ ~RowsPresent(p, "expenses")
        /\ RowsPresent(q, "expenses")

(***************************************************************************)
(* Properties of the conversations                                         *)
(***************************************************************************)

NothingPosted == UNCHANGED <<posts, expenses, movements>>

\* C8: a step that handles /cancelar in a chat leaves no conversation of that
\* chat in a non-terminal state, whichever of the seven states the manual and
\* the invoice flow were in, and posts nothing.
C8_CancelEndsTheFlow ==
    [][\A c \in Chats :
          cmd_cancelar(c) => (manual'[c] = END /\ factura'[c] = END /\ NothingPosted)]_vars

Linear == <<"DETALLE", "CATEGORIA", "SELECCION_MONEDA", "MONTO", "CONFIRMACION">>

InvalidAmountAtMonto(l) == l[1] = "MONTO" /\ MontoOf(l[2]).exc = "ValueError"

\* C9: a manual flow in its n-th state has entered exactly the first n states
\* of DETALLE, CATEGORIA, SELECCION_MONEDA, MONTO, CONFIRMACION in that order,
\* the only state a handler left as it was is MONTO on a text that is no
\* amount, and every register_expenses call of the manual flow was made in
\* CONFIRMACION at the end of that path.
C9_ManualFlowIsLinear ==
    /\ \A c \in Chats :
          /\ manual[c] # END =>
                \E n \in 1..Len(Linear) :
                    manual[c] = Linear[n] /\ path[c] = SubSeq(Linear, 1, n)
          /\ \A l \in loops[c] : InvalidAmountAtMonto(l)
    /\ \A i \in 1..Len(posts) :
          posts[i].flow = "manual" =>
              /\ posts[i].state = "CONFIRMACION"
              /\ posts[i].path = Linear
              /\ \A l \in posts[i].loops : InvalidAmountAtMonto(l)

\* a manual flow that was sent back to MONTO once and then posted
C9_Witness ==
    \E i \in 1..Len(posts) :
        /\ posts[i].flow = "manual"
        /\ posts[i].path = Linear
        /\ posts[i].loops = {<<"MONTO", <<"x">>>>}
        /\ posts[i].success

\* C10: an invoice flow whose extraction gave no record is never in
\* CONFIRMACION_FACTURA, and no register_expenses call is made for it.
C10_NoRecordNoConfirmation ==
    /\ \A c \in Chats : extraction[c] = "None" => factura[c] # "CONFIRMACION_FACTURA"
    /\ \A i \in 1..Len(posts) : posts[i].flow = "factura" => posts[i].extraction = "record"

\* C11: the manual conversation and the invoice conversation of a chat are
\* never both in a non-terminal state.
C11_AtMostOneActiveFlow ==
    \A c \in Chats : manual[c] = END \/ factura[c] = END

NoActiveFlow == \A c \in Chats : manual[c] = END /\ factura[c] = END

\* C12: when every flow has ended (by confirm, cancel button, /cancelar or a
\* processing error), the session store holds none of the fields detalle,
\* categoria, moneda_seleccionada, montoCOP, montoUSD, fecha.
C12_EndedFlowLeavesNoField ==
    NoActiveFlow =>
        DOMAIN user_data \cap {"detalle", "categoria", "moneda_seleccionada",
                               "montoCOP", "montoUSD", "fecha"} = {}

\* C13: a flow in one chat shares no session field with a flow in another
\* chat of the same user: the record a manual flow posts carries the
\* description that was entered in the chat of that flow.
C13_ChatsShareNoState ==
    \A i \in 1..Len(posts) :
        posts[i].flow = "manual" =>
            posts[i].gasto[1].detalle = DescriptionIn(posts[i].chat)

\* C14: in CONFIRMACION and CONFIRMACION_FACTURA a callback query with the
\* cancel token ends the flow and posts nothing, and a callback query with a
\* token that is neither confirm nor cancel leaves both conversations in
\* their state and posts nothing.
C14_OnlyConfirmAndCancel ==
    [][\A c \in Chats : \A k \in Keyboards : \A eo, mo \in PostOutcomes :
          /\ process_confirmacion(c, k, "cancelar", eo, mo)
                => (manual'[c] = END /\ NothingPosted)
          /\ process_confirmacion_factura(c, k, "cancelar", eo, mo)
                => (factura'[c] = END /\ NothingPosted)
          /\ \A data \in Buttons(k) \ {"confirmar", "cancelar"} :
                (\/ process_confirmacion(c, k, data, eo, mo)
                 \/ process_confirmacion_factura(c, k, data, eo, mo))
                => (UNCHANGED <<manual, factura>> /\ NothingPosted)]_vars

\* C15: the categoria held by the session, and the categoria of every record
\* posted by the manual flow, is one of the six categories of CATEGORIAS.
C15_CategoriaInClosedSet ==
    /\ "categoria" \in DOMAIN user_data => user_data["categoria"] \in Buttons("categorias")
    /\ \A i \in 1..Len(posts) :
          posts[i].flow = "manual" => posts[i].gasto[1].categoria \in Buttons("categorias")

\* C16: the moneda_seleccionada held by the session is exactly COP or USD.
C16_MonedaIsCopOrUsd ==
    "moneda_seleccionada" \in DOMAIN user_data =>
        user_data["moneda_seleccionada"] \in {"COP", "USD"}

\* C17: handling in MONTO a text that is no number leaves the flow in MONTO
\* and changes nothing but the record of the entry: every session field, the
\* ledgers and the posts are as before, so the next entry, valid or not, is
\* handled as the first one was.
C17_InvalidAmountStaysInMonto ==
    [][\A c \in Chats : \A text \in AmountTexts :
          (process_monto(c, text) /\ MontoOf(text).exc = "ValueError")
          => /\ manual'[c] = "MONTO"
             /\ UNCHANGED <<manual, factura, user_data, live, rates, started, path, extraction>>
             /\ NothingPosted]_vars

\* two different invalid entries were handled in a row and the flow is
\* still in MONTO, with no amount stored
C17_Witness ==
    \E c \in Chats :
        /\ manual[c] = "MONTO"
        /\ Cardinality(loops[c]) >= 2
        /\ \A l \in loops[c] : InvalidAmountAtMonto(l)
        /\ ~Has(user_data, {"montoCOP"})

\* C18: every register_expenses call of a confirmation handler is made with
\* one record and is followed by an attempt to send the notification,
\* whether it returned True or False.
C18_NotificationAttemptedAfterEveryPost ==
    \A i \in 1..Len(posts) : Len(posts[i].gasto) = 1 /\ posts[i].notified

Validated == applied.fn = "validate_invoice_info"

\* C19: validate_invoice_info returns without raising, and the record it
\* returns has the five fields, a categoria of the closed set and a moneda
\* that is USD or COP.
C19_ValidateIsTotal ==
    Validated =>
        /\ applied.output.exc = "none"
        /\ DOMAIN applied.output.val = {"fecha", "detalle", "monto", "moneda", "categoria"}
        /\ applied.output.val.categoria \in available_categories
        /\ applied.output.val.moneda \in {"USD", "COP"}

\* C20: for an object whose moneda is missing or is neither USD nor COP, the
\* record returned has moneda COP when its monto is above 1000 and USD when
\* it is not.
C20_CurrencyByMagnitude ==
    (/\ Validated
     /\ applied.output.exc = "none"
     /\ \/ "moneda" \notin DOMAIN applied.input
        \/ applied.input.moneda \notin {"USD", "COP"})
    => applied.output.val.moneda =
          (IF NumLeq(applied.output.val.monto, Num(1000)) THEN "USD" ELSE "COP")

\* C21: the display text of a whole COP amount, and of a USD amount with two
\* decimals, parses back to the amount.
C21_ParseInvertsFormat ==
    applied.fn = "parse_amount" => NumEq(applied.output, applied.input.amount)

\* C22: a call of load_exchange_rates that returns True leaves the pair it
\* read, and a call that returns False leaves both rates as they were.
C22_RatesReplacedWholesale ==
    [][\A reply \in RateReplies :
          load_exchange_rates(reply) =>
              IF applied'.output
              THEN rates' = [usd_to_cop_rate |-> RateOf(reply.values[1]).val,
                             cop_to_usd_rate |-> RateOf(reply.values[2]).val]
              ELSE rates' = rates]_vars

\* C23: handling in MONTO a text that parses to the amount a stores the
\* display form of a under the chosen currency and the display form of a
\* times the rate of the matching direction under the other one, and takes the
\* flow to CONFIRMACION.
C23_EnteredAmountIsAuthoritative ==
    [][\A c \in Chats : \A text \in AmountTexts :
          (process_monto(c, text) /\ MontoOf(text).exc = "none")
          => LET a == MontoOf(text).val
             IN  /\ manual'[c] = "CONFIRMACION"
                 /\ IF user_data["moneda_seleccionada"] = "COP"
                    THEN /\ user_data'["montoCOP"] = format_cop_amount(a)
                         /\ user_data'["montoUSD"] =
                               format_usd_amount(NumMul(a, rates.cop_to_usd_rate))
                    ELSE /\ user_data'["montoUSD"] = format_usd_amount(a)
                         /\ user_data'["montoCOP"] =
                               format_cop_amount(NumMul(a, rates.usd_to_cop_rate))]_vars

\* 15 entered in USD was shown as $15.00 and $64.500, and 1000 entered in COP
\* as $1.000 and $0.23 (rate 4300)
C23_Witness ==
    \E i, j \in 1..Len(posts) :
        /\ posts[i].gasto[1].montoUSD = <<"$", "1", "5", ".", "0", "0">>
        /\ posts[i].gasto[1].montoCOP = <<"$", "6", "4", ".", "5", "0", "0">>
        /\ posts[j].gasto[1].montoCOP = <<"$", "1", ".", "0", "0", "0">>
        /\ posts[j].gasto[1].montoUSD = <<"$", "0", ".", "2", "3">>

\* One register_expenses call was made, with a list of one record, and when
\* it returned True each ledger has one row more
PostedOneRecord ==
    /\ Len(posts') = Len(posts) + 1
    /\ Len(posts'[Len(posts')].gasto) = 1
    /\ posts'[Len(posts')].success
          => /\ Len(expenses') = Len(expenses) + 1
             /\ Len(movements') = Len(movements) + 1

\* The step is the handling of the confirm token by a flow of chat c that was
\* waiting for confirmation and ends
ConfirmedAndEnded(c) ==
    \/ /\ manual[c] = "CONFIRMACION" /\ manual'[c] = END
       /\ \E k \in live[c] : \E eo, mo \in PostOutcomes :
              process_confirmacion(c, k, "confirmar", eo, mo)
    \/ /\ factura[c] = "CONFIRMACION_FACTURA" /\ factura'[c] = END
       /\ \E k \in live[c] : \E eo, mo \in PostOutcomes :
              process_confirmacion_factura(c, k, "confirmar", eo, mo)

\* The step is the handling of the cancel token or of /cancelar, or of a
\* callback query that no flow was waiting for
CancelledOrUnhandled(c) ==
    \/ cmd_cancelar(c)
    \/ unhandled_callback(c, "confirmar")
    \/ /\ manual[c] = "CONFIRMACION"
       /\ \E k \in live[c] : process_confirmacion(c, k, "cancelar", "ok", "ok")
    \/ /\ factura[c] = "CONFIRMACION_FACTURA"
       /\ \E k \in live[c] : process_confirmacion_factura(c, k, "cancelar", "ok", "ok")

\* C24: a step in which a flow in its confirmation state handles the confirm
\* token and ends makes exactly one register_expenses call, with a list of one
\* record, and when the call succeeds each ledger has one row more; a step
\* that handles the cancel token or /cancelar, or a callback query arriving
\* when no flow is waiting for one, posts nothing; and nothing is posted by
\* any step other than one that ends a flow waiting for confirmation.
C24_OnePostPerConfirmedFlow ==
    [][IF NothingPosted
       THEN \A c \in Chats : ~ConfirmedAndEnded(c)
       ELSE /\ PostedOneRecord
            /\ \E c \in Chats : ConfirmedAndEnded(c)
            /\ \A c \in Chats : ~CancelledOrUnhandled(c)]_vars

\* one flow was confirmed and posted one row to each ledger, another ended
\* without a post
C24_Witness ==
    /\ NoActiveFlow
    /\ started = 2
    /\ Len(posts) = 1
    /\ posts[1].success
    /\ Len(expenses) = Len(InitialExpenses) + 1
    /\ Len(movements) = Len(InitialMovements) + 1

\* C25: every expense-ledger row written for a record captured by the bot
\* carries a montoCOP and a montoUSD that are strictly greater than zero (an
\* amount that is zero or negative never reaches the ledger).
C25_LedgerAmountsPositive ==
    \A i \in 1..Len(expenses) :
        expenses[i].by = "bot" =>
            /\ ~NumLeq(format_currency(expenses[i].montoCOP), Num(0))
            /\ ~NumLeq(format_currency(expenses[i].montoUSD), Num(0))

\* The date column (month, day, year) of a day given as dd/mm/yyyy
DateColumnOf(fecha) == <<fecha[2], fecha[1], fecha[3]>>

\* C26: for every record the bot posted successfully, the expense ledger and
\* the movement ledger hold a row of that record whose date column is the
\* record's own fecha, the day the confirmation summary showed.
C26_RowsCarryTheRecordDate ==
    \A i \in 1..Len(posts) :
        posts[i].success =>
            LET g == posts[i].gasto[1]
            IN  /\ \E j \in 1..Len(expenses) :
                       /\ expenses[j].by = "bot"
                       /\ expenses[j].detalle = g.detalle
                       /\ expenses[j].fecha = DateColumnOf(g.fecha)
                /\ \E j \in 1..Len(movements) :
                       /\ movements[j].by = "bot"
                       /\ movements[j].detalle[2] = g.detalle
                       /\ movements[j].fecha = DateColumnOf(g.fecha)

\* The number a reader of the expense ledger gets from a montoCOP cell
ExpenseAmount(row) == IF variant = "text" THEN format_currency(row.montoCOP) ELSE row.montoCOP

\* C27: the update of the movement ledger for a call on records r1..rn adds
\* exactly n rows, in input order; row i has the detalle of ri after the
\* marker 'Gasto recurrente: ', and its amount is minus the absolute value of
\* the COP amount in the expense-ledger row the same call wrote for ri.
C27_MovementRowsMirrorExpenseRows ==
    [][\A p \in Procs :
          (call[p].pc = "movements_update" /\ Served(p, "update", "movements")') =>
              /\ Len(movements') = Len(movements) + Len(call[p].subs)
              /\ \A i \in 1..Len(call[p].subs) :
                     /\ movements'[Len(movements) + i].by = p
                     /\ movements'[Len(movements) + i].detalle
                            = <<"Gasto recurrente: ", call[p].subs[i].detalle>>
                     /\ Served(p, "update", "expenses") =>
                            /\ expenses[Len(expenses) - Len(call[p].subs) + i].detalle
                                   = call[p].subs[i].detalle
                            /\ NumEq(MovementAmount(movements'[Len(movements) + i]),
                                     NumNeg(NumAbs(ExpenseAmount(
                                         expenses[Len(expenses) - Len(call[p].subs) + i]))))]_vars

\* a call on two records is done: the last two movement rows are theirs in
\* input order, with the negated amounts of the two expense rows
C27_Witness ==
    \E p \in Procs :
        /\ Finished(p) /\ call[p].ret
        /\ Len(call[p].subs) = 2
        /\ call[p].subs[1].detalle = "Oficina" /\ call[p].subs[2].detalle = "Hosting"
        /\ Len(movements) >= 4 /\ Len(expenses) >= 3
        /\ movements[Len(movements) - 1].detalle = <<"Gasto recurrente: ", "Oficina">>
        /\ movements[Len(movements)].detalle = <<"Gasto recurrente: ", "Hosting">>
        /\ expenses[Len(expenses)].detalle = "Hosting"
        /\ NumLeq(Num(5), ExpenseAmount(expenses[Len(expenses)]))
        /\ NumEq(MovementAmount(movements[Len(movements)]),
                 NumNeg(ExpenseAmount(expenses[Len(expenses)])))
        /\ NumEq(MovementAmount(movements[Len(movements) - 1]),
                 ExpenseAmount(expenses[Len(expenses) - 1]))

\* parse_amount took its except branch (and returned 0.0)
ParseAmountFailed(amount_str) ==
    PyFloat(ReplaceChar(Remove(Remove(amount_str, "$"), "."), ",", ".")).exc = "ValueError"

\* C28: a text handled in MONTO is accepted exactly when parse_amount can
\* parse it, and the two amounts then stored are the formatted parse_amount
\* of the text and its conversion; a text parse_amount cannot parse leaves
\* the flow in MONTO and the session as it was.
C28_AmountStepUsesParseAmount ==
    [][\A c \in Chats : \A text \in AmountTexts :
          (/\ process_monto(c, text)
           /\ Has(user_data, {"moneda_seleccionada", "detalle", "categoria"})) =>
              IF ParseAmountFailed(text)
              THEN manual'[c] = "MONTO" /\ UNCHANGED user_data
              ELSE /\ manual'[c] = "CONFIRMACION"
                   /\ user_data' = WithMontos(user_data, rates, parse_amount(text),
                                              user_data["moneda_seleccionada"])]_vars

\* The record of a session that holds exactly the fields d
RecordOf(d, fecha) ==
    [fecha     |-> fecha,
     detalle   |-> d["detalle"],
     categoria |-> d["categoria"],
     montoCOP  |-> d["montoCOP"],
     montoUSD  |-> d["montoUSD"]]

AnyButton == UNION {Buttons(k) : k \in Keyboards}

\* The records a manual flow can capture from the user's entries alone
ManualCaptures ==
    {RecordOf(WithMontos([detalle |-> text, categoria |-> cat], rates, MontoOf(monto).val, moneda),
              DayMonthYear(today)) :
        text \in Descriptions, cat \in AnyButton, moneda \in AnyButton,
        monto \in {m \in MsgTexts : MontoOf(m).exc = "none"}}

\* The records an invoice flow can capture from the invoice alone
InvoiceCaptures ==
    {RecordOf(show_invoice_confirmation(<<>>, rates, info).user_data, info.fecha) :
        info \in {process_invoice(".jpg", "FACTURA", reply, today) : reply \in ClaudeReplies}
                    \ {None}}

\* C29: the record of every register_expenses call of the bot is made of
\* values captured in the flow that posts it: a manual flow posts a record
\* built from entries of the manual flow; an invoice flow posts only when its
\* own extraction gave a record, and posts a record extracted from an invoice
\* (the two flows capture different values in these runs).
C29_OnlyValuesOfTheCurrentFlow ==
    \A i \in 1..Len(posts) :
        IF posts[i].flow = "manual"
        THEN posts[i].gasto[1] \in ManualCaptures
        ELSE posts[i].extraction = "record" /\ posts[i].gasto[1] \in InvoiceCaptures

\* The numbers a reader takes from the amounts of the confirmation summary:
\* "." groups the thousands of montoCOP, "," those of montoUSD
ShownCOP(text) == PyFloat(Remove(Remove(text, "$"), ".")).val

ShownUSD(text) == PyFloat(Remove(Remove(text, "$"), ",")).val

\* C30: the expense-ledger row built for a record confirmed in the bot
\* carries the amounts of the summary: the text poster the two displayed
\* strings unchanged, the numeric poster two numbers equal to the displayed
\* values.
C30_LedgerAmountsAreTheShownOnes ==
    applied.fn = "register_in_expenses_sheet" =>
        /\ applied.output.row.exc = "none"
        /\ IF variant = "text"
           THEN /\ applied.output.row.val.montoCOP = applied.output.shown["montoCOP"]
                /\ applied.output.row.val.montoUSD = applied.output.shown["montoUSD"]
           ELSE /\ NumEq(applied.output.row.val.montoCOP,
                         ShownCOP(applied.output.shown["montoCOP"]))
                /\ NumEq(applied.output.row.val.montoUSD,
                         ShownUSD(applied.output.shown["montoUSD"]))

\* Poster v builds the rows of both ledgers for subs without raising, so that
\* it returns True when the spreadsheet serves its requests
BuildsRows(v, p, subs) ==
    /\ ExpenseValues(v, p, today, subs).exc = "none"
    /\ MovementValues(v, p, today, subs).exc = "none"

\* C31: for the records of every call, the display-text poster and the
\* numeric poster fail on the same lists (so they return the same boolean
\* when the spreadsheet treats them alike), and the movement amounts they
\* write for each record are numerically equal.
C31_PostersAgree ==
    \A p \in Procs :
        LET subs == call[p].subs
        IN  /\ BuildsRows("text", p, subs) <=> BuildsRows("numeric", p, subs)
            /\ (BuildsRows("text", p, subs) /\ BuildsRows("numeric", p, subs)) =>
                   \A i \in 1..Len(subs) :
                       NumEq(format_currency(MovementValues("text", p, today, subs).val[i].monto),
                             MovementValues("numeric", p, today, subs).val[i].monto)

Processed == applied.fn = "process_invoice"

InvoiceFields == {"fecha", "detalle", "monto", "moneda", "categoria"}

\* C32: a result of process_invoice (of analyze_invoice_with_claude) that is
\* not None has the five fields, a monto that is a number, a fecha that is a
\* day/month/year date, a moneda of USD or COP and a categoria of the closed
\* set; and when the request failed, the answer was no JSON object or
\* validate_invoice_info raised, the result is None.
C32_ResultIsValidatedOrNone ==
    Processed =>
        /\ applied.output.ret # None =>
               /\ InvoiceFields \subseteq DOMAIN applied.output.ret
               /\ DOMAIN applied.output.ret.monto = {"n", "d"}
               /\ IsDayMonthYear(applied.output.ret.fecha)
               /\ applied.output.ret.moneda \in {"USD", "COP"}
               /\ applied.output.ret.categoria \in available_categories
        /\ applied.input.reply.kind # "ok" => applied.output.ret = None
        /\ (/\ applied.input.reply.kind = "ok"
            /\ validate_invoice_info(applied.input.reply.json, today).exc # "none")
              => applied.output.ret = None

\* an answer with a fecha that is no date, a monto given as a string and an
\* unknown moneda and categoria came back as a validated record
C32_Witness ==
    /\ Processed
    /\ applied.input.reply.kind = "ok"
    /\ applied.input.reply.json
          = [fecha |-> [str |-> <<31, 2, 2026>>], detalle |-> <<"x">>,
             monto |-> [str |-> <<"1", ",", "5", "0", "0">>], moneda |-> "EUR",
             categoria |-> "Comida"]
    /\ applied.output.ret
          = [fecha |-> DayMonthYear(today), detalle |-> <<"x">>, monto |-> Num(1500),
             moneda |-> "COP", categoria |-> "Otros"]

\* C33: process_invoice calls analyze_invoice_with_claude only as its second
\* call, after the text extraction of the file's kind, and only when the
\* extension is supported and the extracted text is not empty; otherwise it
\* returns None without that call.
C33_AnalyzeOnlyAfterText ==
    Processed =>
        LET calls == applied.output.calls
            analyzed == \E i \in 1..Len(calls) : calls[i] = "analyze_invoice_with_claude"
        IN  /\ analyzed =>
                   /\ applied.input.file_ext \in {".jpg", ".jpeg", ".png", ".pdf"}
                   /\ applied.input.text # ""
                   /\ Len(calls) = 2
                   /\ calls[1] \in {"extract_text_from_image", "extract_text_from_pdf"}
                   /\ calls[2] = "analyze_invoice_with_claude"
            /\ (\/ applied.input.file_ext \notin {".jpg", ".jpeg", ".png", ".pdf"}
                \/ applied.input.text = "")
                  => ~analyzed /\ applied.output.ret = None

\* a PDF without text, for which Claude would have answered with a record:
\* the extraction was the only call
C33_Witness ==
    /\ Processed
    /\ applied.input.file_ext = ".pdf"
    /\ applied.input.text = ""
    /\ applied.input.reply.kind = "ok"
    /\ analyze_invoice_with_claude(applied.input.reply, today) # None
    /\ applied.output.calls = <<"extract_text_from_pdf">>
    /\ applied.output.ret = None

\* C34: validate_invoice_info applied to a record it returned, on the same
\* day, returns that record.
C34_ValidateIsIdempotent ==
    applied.fn = "validate_invoice_info twice" =>
        /\ applied.output.exc = "none"
        /\ applied.output.val = applied.first

\* the first call replaced a fecha that is no date, a monto given as a
\* string and an unknown moneda and categoria, and the second changed nothing
C34_Witness ==
    /\ applied.fn = "validate_invoice_info twice"
    /\ applied.input = [fecha |-> [str |-> <<31, 2, 2026>>],
                        monto |-> [str |-> <<"1", ",", "5", "0", "0">>],
                        moneda |-> "EUR", categoria |-> "Comida"]
    /\ applied.first = [fecha |-> DayMonthYear(today), detalle |-> <<"Gasto no especificado">>,
                        monto |-> Num(1500), moneda |-> "COP", categoria |-> "Otros"]
    /\ applied.output = Ok(applied.first)

\* C35: in the record validate_invoice_info returns, a fecha that was a
\* day/month/year date, a monto that was a number, a moneda that was USD or
\* COP, a categoria of the closed set and a detalle are as they were given,
\* every other key of the object holds what it held, and no key but the
\* five fields was added.
C35_ValidateChangesOnlyTheInvalid ==
    (Validated /\ applied.output.exc = "none") =>
        /\ DOMAIN applied.output.val = DOMAIN applied.input \cup InvoiceFields
        /\ \A k \in DOMAIN applied.input \ InvoiceFields :
               applied.output.val[k] = applied.input[k]
        /\ "detalle" \in DOMAIN applied.input
              => applied.output.val.detalle = applied.input.detalle
        /\ ("fecha" \in DOMAIN applied.input /\ IsDayMonthYear(applied.input.fecha.str))
              => applied.output.val.fecha = applied.input.fecha.str
        /\ ("monto" \in DOMAIN applied.input /\ "num" \in DOMAIN applied.input.monto)
              => applied.output.val.monto = applied.input.monto.num
        /\ ("moneda" \in DOMAIN applied.input /\ applied.input.moneda \in {"USD", "COP"})
              => applied.output.val.moneda = applied.input.moneda
        /\ ("categoria" \in DOMAIN applied.input
               /\ applied.input.categoria \in available_categories)
              => applied.output.val.categoria = applied.input.categoria

\* a valid object with a sixth key came back as it was given
C35_Witness ==
    /\ Validated
    /\ applied.input = [fecha |-> [str |-> <<3, 2, 2026>>], detalle |-> <<"x">>,
                        monto |-> [num |-> Num(45000)], moneda |-> "USD",
                        categoria |-> "Tech", nit |-> <<"9">>]
    /\ applied.output = Ok([fecha |-> <<3, 2, 2026>>, detalle |-> <<"x">>,
                            monto |-> Num(45000), moneda |-> "USD",
                            categoria |-> "Tech", nit |-> <<"9">>])

CallsOf(calls, name) == {i \in 1..Len(calls) : calls[i].call = name}

Running == applied.fn = "main"

SubsOf(sheet) == {sheet[i] : i \in 1..Len(sheet)}

\* C37: no subscription is in two notifications of the same calendar day.
C37_OncePerDay ==
    Running =>
        \A i \in 1..Len(applied.sent) : \A j \in 1..Len(applied.sent) :
            (i < j /\ applied.sent[i].on = applied.sent[j].on)
                => SubsOf(applied.sent[i].subs) \cap SubsOf(applied.sent[j].subs) = {}

\* The days of a month on which sub was notified
NotifiedDays(sub, month, year) ==
    {d \in 1..DaysIn(month, year) :
        \E i \in 1..Len(applied.sent) :
            /\ applied.sent[i].on = [day |-> d, month |-> month, year |-> year]
            /\ sub \in SubsOf(applied.sent[i].subs)}

\* The months of the current year the service ran through from the first day
\* to the last
MonthsRunThrough ==
    {m \in 1..12 : /\ m < today.month
                   /\ applied.started.year = today.year
                   /\ \/ applied.started.month < m
                      \/ applied.started.month = m /\ applied.started.day = 1}

\* C38: an active subscription with a well-formed fecha is notified on
\* exactly one day of every month the daily check ran through, and a
\* subscription whose estado is not 'activo' in any case is never notified.
C38_DueOnceEveryMonth ==
    Running =>
        \A sub \in SubsOf(applied.input) :
            IF PyLower(sub.estado) # Activo
            THEN \A i \in 1..Len(applied.sent) : sub \notin SubsOf(applied.sent[i].subs)
            ELSE IsDayMonthYear(sub.fecha) =>
                    \A m \in MonthsRunThrough :
                        Cardinality(NotifiedDays(sub, m, today.year)) = 1

====
